---- MODULE Spec2Model ----
(***************************************************************************)
(* The reconciliation engine of corona-case-upsert: the case_state and     *)
(* sync_log tables (src/src/state/tracker.ts), the change detector         *)
(* diffCases, the bulk upsert upsertCaseState, the remote matcher          *)
(* (getTicketById / findTicketByCaseNumber) and one run of                 *)
(* processCasesSync (src/src/sync/cases-sync.ts).                          *)
(*                                                                         *)
(* The remote ticket store and the database driver are the environment:    *)
(* every remote call and every store operation gets its response from a    *)
(* small set (a ticket, a 404, an error; a commit or a rejected query).    *)
(* One run is a process whose steps are the groups of awaits of            *)
(* processCasesSync; runs follow each other, one at a time.                *)
(*                                                                         *)
(* ServiceSpec puts the run behind the webhook: a CSV attachment goes      *)
(* through parseCodeEnforcementCasesCsv (src/src/index.ts) before the run, *)
(* and POST /admin/clear-cache may be served at any moment.  RateSpec is   *)
(* rateLimitedRequest, the limiter every remote call passes.               *)
(***************************************************************************)
EXTENDS Integers, Sequences, FiniteSets, TLC

(* ------------------------------ bounds -------------------------------- *)
\* longest delivered batch (records per run)
MaxBatch == 2
\* runs of processCasesSync in one process lifetime
MaxRuns == 2
\* records delivered over all runs (a batch delivered again right after
\* itself is not counted anew)
MaxRecords == 2
\* rejected store operations and failed remote calls over all runs
MaxFaults == 2
\* remote ticket ids 1..MaxTickets
MaxTickets == 1
\* rows per multi-row INSERT of upsertCaseState; the program's value is 1000
\* (tracker.ts:214), scaled down so that a batch spans several chunks
BATCH_SIZE == 1

\* attachments the webhook hands to the parser in one process lifetime
MaxDeliveries == 1
\* requests served by POST /admin/clear-cache in one process lifetime
MaxClears == 1
\* rejected store operations and failed remote calls while deliveries and
\* admin requests are served
MaxServiceFaults == 1

\* runs whose remote calls share the limiter (webhook requests in flight)
MaxCallers == 2
\* Date.now() when the process starts, its step and its last value, in ms
StartTime == 1000
TickMs == 100
MaxTime == 1800

\* runs that write case_state at the same time, and the records they carry
\* between them
MaxRacers == 2
MaxRaceRecords == 3
\* longest string handed to isValidCaseNo
MaxIdLen == 7

(* --------------------------- value domains ---------------------------- *)
\* JS null / undefined of a string field
Null == "<null>"
\* a null threefold_ticket_id (falsy in `if (change.threefoldTicketId)`)
NoTicket == 0
\* a null timestamp (sync_log.completed_at before the run is finalized)
NoTime == 0
\* CaseStateChange.previousHash of a new case
NoHash == <<>>

\* case numbers, as character sequences: CE24-1 and CE24-10
CaseA == <<"C", "E", "2", "4", "-", "1">>
CaseB == <<"C", "E", "2", "4", "-", "1", "0">>
CaseNos == {CaseA, CaseB}

\* normalizeDate yields null or YYYY-MM-DD
OpenedDates == {Null, "2025-01-01"}
ClosedDates == {Null, "2025-02-01"}
\* caseType stands for the fields outside the fingerprint
\* (caseType, caseSubType, siteAddress, rawData): they travel together
CaseTypes == {"CODE ENFORCEMENT"}

Records ==
    [caseNo : CaseNos, caseOpened : OpenedDates, caseClosed : ClosedDates,
     caseType : CaseTypes]

TicketIds == 1..MaxTickets

\* custom field values the remote may hold: unset, the empty string, a value
RemoteOpened == {"", "2025-01-01"}
RemoteClosed == {Null, "2025-02-01"}
RemoteStatus == {Null, "open", "closed"}

Tickets ==
    [id : TicketIds, cc_case_number : CaseNos, cc_case_opened : RemoteOpened,
     case_close_date : RemoteClosed, last_case_status : RemoteStatus]

\* getTicketById's `ticket` when the fetch reports 404, and the matcher's
\* result when nothing matches
NoTicketFound ==
    [id |-> NoTicket, cc_case_number |-> <<>>, cc_case_opened |-> Null,
     case_close_date |-> Null, last_case_status |-> Null]

(* --------------------------- pure functions --------------------------- *)
\* batches: every sequence of at most n records
RECURSIVE SeqsUpTo(_, _)
SeqsUpTo(S, n) ==
    IF n = 0 THEN {<<>>}
    ELSE LET shorter == SeqsUpTo(S, n - 1)
         IN  shorter \cup {Append(s, x) : s \in {t \in shorter : Len(t) = n - 1}, x \in S}

Batches == SeqsUpTo(Records, MaxBatch)

\* `x ?? ''` of generateCaseHash
OrEmpty(x) == IF x = Null THEN "" ELSE x

\* a digest that would take in the fields outside the fingerprint
HashOfAllFields(record) ==
    <<record.caseNo,
      IF record.caseOpened = Null THEN "" ELSE record.caseOpened,
      IF record.caseClosed = Null THEN "" ELSE record.caseClosed,
      record.caseType>>

\* generateCaseHash: the digest of caseNo|caseOpened|caseClosed.  The SHA-256
\* prefix is modelled by the string it digests (no collision on this domain).
generateCaseHash(record) ==
    <<record.caseNo, OrEmpty(record.caseOpened), OrEmpty(record.caseClosed)>>

\* JS truthiness of a string-or-null value
Truthy(x) == x # Null /\ x # ""

\* a status that would follow the closed date alone
ClosedWhenClosedDate(caseOpened, caseClosed) ==
    IF caseClosed # Null /\ caseClosed # "" THEN "closed" ELSE "open"

\* a status that would never be closed, and one that would never be open
AlwaysOpen(caseOpened, caseClosed) == "open"
AlwaysClosed(caseOpened, caseClosed) == "closed"

determineCaseStatus(caseOpened, caseClosed) ==
    IF Truthy(caseOpened) /\ Truthy(caseClosed) THEN "closed" ELSE "open"

\* `x || null`
OrNull(x) == IF Truthy(x) THEN x ELSE Null

\* a Map that would keep the value of a key's first occurrence
RECURSIVE FirstOccurrenceWins(_, _)
FirstOccurrenceWins(deduped, records) ==
    IF records = <<>> THEN deduped
    ELSE LET r == Head(records)
             hit == {i \in 1..Len(deduped) : deduped[i].caseNo = r.caseNo}
         IN  FirstOccurrenceWins(IF hit = {} THEN Append(deduped, r) ELSE deduped,
                                 Tail(records))

\* Map.set over the records in order: a key keeps the position of its first
\* occurrence and takes the value of its last
RECURSIVE MapSetAll(_, _)
MapSetAll(deduped, records) ==
    IF records = <<>> THEN deduped
    ELSE LET r == Head(records)
             hit == {i \in 1..Len(deduped) : deduped[i].caseNo = r.caseNo}
             next == IF hit = {} THEN Append(deduped, r)
                     ELSE [i \in 1..Len(deduped) |->
                               IF i \in hit THEN r ELSE deduped[i]]
         IN  MapSetAll(next, Tail(records))

\* a batch that would be diffed and written as delivered
NoDedup(records) == records

\* Array.from(deduped.values())
Dedup(records) == MapSetAll(<<>>, records)


\* a change that would never carry the stored row
ChangeWithoutPrevious(record, state) ==
    [caseNo |-> record.caseNo, record |-> record,
     previousHash |-> NoHash, newHash |-> generateCaseHash(record),
     isNew |-> TRUE, previousOpened |-> Null, previousClosed |-> Null,
     previousStatus |-> Null, threefoldTicketId |-> NoTicket]

\* uniqueRecords.map: the change diffCases emits for one record, if any
ChangeFor(record, state) ==
    IF record.caseNo \notin DOMAIN state
    THEN [caseNo |-> record.caseNo, record |-> record,
          previousHash |-> NoHash, newHash |-> generateCaseHash(record),
          isNew |-> TRUE, previousOpened |-> Null, previousClosed |-> Null,
          previousStatus |-> Null, threefoldTicketId |-> NoTicket]
    ELSE LET currentState == state[record.caseNo]
         IN  [caseNo |-> record.caseNo, record |-> record,
              previousHash |-> currentState.content_hash,
              newHash |-> generateCaseHash(record),
              isNew |-> FALSE,
              previousOpened |-> currentState.case_opened,
              previousClosed |-> currentState.case_closed,
              previousStatus |-> currentState.case_status,
              threefoldTicketId |-> currentState.threefold_ticket_id]

\* a detector that would compare the fields outside the fingerprint too
DiffersOnAnyField(record, state) ==
    \/ record.caseNo \notin DOMAIN state
    \/ state[record.caseNo].content_hash # generateCaseHash(record)
    \/ state[record.caseNo].case_type # record.caseType

\* a detector that would take every record for changed
AlwaysDiffers(record, state) == TRUE

\* the records of uniqueRecords for which diffCases pushes a change
Differs(record, state) ==
    \/ record.caseNo \notin DOMAIN state
    \/ state[record.caseNo].content_hash # generateCaseHash(record)

\* diffCases: the changes of a batch against the stored rows
DiffCases(records, state) ==
    LET uniqueRecords == Dedup(records)
        changed == SelectSeq(uniqueRecords, LAMBDA r : Differs(r, state))
    IN  [i \in 1..Len(changed) |-> ChangeFor(changed[i], state)]

\* a row whose cached link would be reset on conflict
ResetLinkOnConflict(state, record, now) ==
    [c \in DOMAIN state \cup {record.caseNo} |->
        IF c = record.caseNo
        THEN [case_opened |-> record.caseOpened,
              case_closed |-> record.caseClosed,
              case_status |-> determineCaseStatus(record.caseOpened, record.caseClosed),
              case_type |-> record.caseType,
              content_hash |-> generateCaseHash(record),
              threefold_ticket_id |-> NoTicket,
              last_seen_at |-> now,
              created_at |-> IF c \in DOMAIN state THEN state[c].created_at ELSE now]
        ELSE state[c]]

\* a row that would be replaced as a whole on conflict
ReplaceRow(state, record, now) ==
    [c \in DOMAIN state \cup {record.caseNo} |->
        IF c = record.caseNo
        THEN [case_opened |-> record.caseOpened,
              case_closed |-> record.caseClosed,
              case_status |-> IF record.caseOpened # Null /\ record.caseClosed # Null
                              THEN "closed" ELSE "open",
              case_type |-> record.caseType,
              content_hash |-> <<record.caseNo,
                                 IF record.caseOpened = Null THEN "" ELSE record.caseOpened,
                                 IF record.caseClosed = Null THEN "" ELSE record.caseClosed>>,
              threefold_ticket_id |-> 0,
              last_seen_at |-> now,
              created_at |-> now]
        ELSE state[c]]

\* a row written column by column from the record, its fingerprint left
\* as the row had it
KeepOldHash(state, record, now) ==
    [c \in DOMAIN state \cup {record.caseNo} |->
        IF c = record.caseNo
        THEN [case_opened |-> record.caseOpened,
              case_closed |-> record.caseClosed,
              case_status |-> determineCaseStatus(record.caseOpened, record.caseClosed),
              case_type |-> record.caseType,
              content_hash |-> IF c \in DOMAIN state THEN state[c].content_hash
                               ELSE generateCaseHash(record),
              threefold_ticket_id |->
                  IF c \in DOMAIN state THEN state[c].threefold_ticket_id ELSE NoTicket,
              last_seen_at |-> now,
              created_at |-> IF c \in DOMAIN state THEN state[c].created_at ELSE now]
        ELSE state[c]]

\* one row of INSERT ... ON CONFLICT (case_no) DO UPDATE: the listed columns
\* are overwritten, threefold_ticket_id and created_at keep their value (a
\* new row takes the column defaults NULL and NOW())
UpsertRow(state, record, now) ==
    LET exists == record.caseNo \in DOMAIN state
        row == [case_opened |-> record.caseOpened,
                case_closed |-> record.caseClosed,
                case_status |-> determineCaseStatus(record.caseOpened, record.caseClosed),
                case_type |-> record.caseType,
                content_hash |-> generateCaseHash(record),
                threefold_ticket_id |->
                    IF exists THEN state[record.caseNo].threefold_ticket_id ELSE NoTicket,
                last_seen_at |-> now,
                created_at |-> IF exists THEN state[record.caseNo].created_at ELSE now]
    IN  [c \in DOMAIN state \cup {record.caseNo} |->
            IF c = record.caseNo THEN row ELSE state[c]]

RECURSIVE UpsertRows(_, _, _)
UpsertRows(state, rows, now) ==
    IF rows = <<>> THEN state
    ELSE UpsertRows(UpsertRow(state, Head(rows), now), Tail(rows), now)

\* an upsert that would write nothing
SkipUpsert(state, records, now, failAt) == state

\* Math.ceil(uniqueRecords.length / BATCH_SIZE)
NChunks(records) ==
    (Len(Dedup(records)) + BATCH_SIZE - 1) \div BATCH_SIZE

\* an upsert that would insert the new cases and leave the stored ones
UpsertNewOnly(state, records, now, failAt) ==
    IF failAt # 0 THEN state
    ELSE LET uniqueRecords == Dedup(records)
             isNew(r) == r.caseNo \notin DOMAIN state
         IN  UpsertRows(state, SelectSeq(uniqueRecords, isNew), now)

\* an upsert that would make the table a copy of the batch
ReplaceTable(state, records, now, failAt) ==
    IF failAt # 0 THEN state
    ELSE LET uniqueRecords == Dedup(records)
             full == UpsertRows(state, uniqueRecords, now)
         IN  [c \in {uniqueRecords[i].caseNo : i \in DOMAIN uniqueRecords} |-> full[c]]

\* an upsert that would go on with the chunks after the rejected one
CarryOnAfterFailure(state, records, now, failAt) ==
    LET uniqueRecords == Dedup(records)
        n == Len(uniqueRecords)
        before == IF failAt = 0 THEN n
                  ELSE IF (failAt - 1) * BATCH_SIZE < n THEN (failAt - 1) * BATCH_SIZE ELSE n
        after == IF failAt = 0 THEN n + 1 ELSE failAt * BATCH_SIZE + 1
    IN  UpsertRows(state,
                   SubSeq(uniqueRecords, 1, before) \o SubSeq(uniqueRecords, after, n),
                   now)

\* uniqueRecords.slice(i, i + BATCH_SIZE): the rows of the k-th INSERT
Chunk(records, k) ==
    LET uniqueRecords == Dedup(records)
        last == IF k * BATCH_SIZE < Len(uniqueRecords)
                THEN k * BATCH_SIZE ELSE Len(uniqueRecords)
    IN  SubSeq(uniqueRecords, (k - 1) * BATCH_SIZE + 1, last)

\* upsertCaseState: the deduplicated batch written chunk by chunk; failAt is
\* the chunk whose query is rejected (0: none), the chunks before it stay
\* committed
UpsertCaseState(state, records, now, failAt) ==
    LET uniqueRecords == Dedup(records)
        n == Len(uniqueRecords)
        written == IF failAt = 0 THEN n
                   ELSE IF (failAt - 1) * BATCH_SIZE < n
                        THEN (failAt - 1) * BATCH_SIZE ELSE n
    IN  UpsertRows(state, SubSeq(uniqueRecords, 1, written), now)

\* updateCaseThreefoldId: UPDATE case_state SET threefold_ticket_id = $2
\* WHERE case_no = $1 (no row, no effect)
UpdateCaseThreefoldId(state, caseNo, threefoldTicketId) ==
    IF caseNo \in DOMAIN state
    THEN [state EXCEPT ![caseNo].threefold_ticket_id = threefoldTicketId]
    ELSE state

\* completeSyncLog: UPDATE sync_log SET ... WHERE id = $1
CompleteSyncLog(log, id, totalRecords, changedRecords, errs, errorMessage, now) ==
    [log EXCEPT ![id] = [@ EXCEPT !.completed_at = now,
                                  !.total_records = totalRecords,
                                  !.changed_records = changedRecords,
                                  !.errors = errs,
                                  !.error_message = errorMessage]]

\* createSyncLog: INSERT INTO sync_log (sync_type) with the column defaults
NewSyncLogRow(now) ==
    [started_at |-> now, completed_at |-> NoTime, total_records |-> 0,
     changed_records |-> 0, errors |-> 0, error_message |-> Null]


\* the empty case_state table
NoRows == [c \in {} |-> Null]

(* ------------------------------- parser ------------------------------- *)
Digits == {"0", "1", "2", "3", "4", "5", "6", "7", "8", "9"}
Uppers ==
    {"A", "B", "C", "D", "E", "F", "G", "H", "I", "J", "K", "L", "M",
     "N", "O", "P", "Q", "R", "S", "T", "U", "V", "W", "X", "Y", "Z"}

\* String.prototype.trim of a cell (blanks are the white space of this model)
RECURSIVE TrimStart(_)
TrimStart(s) == IF s # <<>> /\ Head(s) = " " THEN TrimStart(Tail(s)) ELSE s
RECURSIVE TrimEnd(_)
TrimEnd(s) ==
    IF s # <<>> /\ s[Len(s)] = " " THEN TrimEnd(SubSeq(s, 1, Len(s) - 1)) ELSE s
Trim(s) == TrimEnd(TrimStart(s))

\* dateStr.split(' ')[0], and the pieces of datePart between slashes
RECURSIVE UntilBlank(_)
UntilBlank(s) ==
    IF s = <<>> \/ Head(s) = " " THEN <<>> ELSE <<Head(s)>> \o UntilBlank(Tail(s))
RECURSIVE SplitOnSlash(_)
SplitOnSlash(s) ==
    IF \A i \in DOMAIN s : s[i] # "/" THEN <<s>>
    ELSE LET k == CHOOSE i \in DOMAIN s : s[i] = "/" /\ \A j \in 1..(i - 1) : s[j] # "/"
         IN  <<SubSeq(s, 1, k - 1)>> \o SplitOnSlash(SubSeq(s, k + 1, Len(s)))

\* the characters of a piece as one string, and padStart(2, '0')
RECURSIVE Join(_)
Join(s) == IF s = <<>> THEN "" ELSE Head(s) \o Join(Tail(s))
PadStart2(s) == IF Len(s) < 2 THEN <<"0">> \o s ELSE s

\* normalizeDate: M/D/YYYY with an optional time part becomes YYYY-MM-DD,
\* anything else null
normalizeDate(dateStr) ==
    IF dateStr = Null \/ Trim(dateStr) = <<>> THEN Null
    ELSE LET parts == SplitOnSlash(UntilBlank(dateStr))
             digits(piece, lo, hi) ==
                 /\ Len(piece) >= lo /\ Len(piece) <= hi
                 /\ \A i \in DOMAIN piece : piece[i] \in Digits
         IN  IF /\ Len(parts) = 3
                /\ digits(parts[1], 1, 2)
                /\ digits(parts[2], 1, 2)
                /\ digits(parts[3], 4, 4)
             THEN Join(parts[3]) \o "-" \o Join(PadStart2(parts[1]))
                      \o "-" \o Join(PadStart2(parts[2]))
             ELSE Null

Lowers ==
    {"a", "b", "c", "d", "e", "f", "g", "h", "i", "j", "k", "l", "m",
     "n", "o", "p", "q", "r", "s", "t", "u", "v", "w", "x", "y", "z"}

\* a check that would take any two letters
AnyTwoLetters(caseNo) ==
    /\ Len(caseNo) >= 6
    /\ caseNo[1] \in Uppers \cup Lowers
    /\ caseNo[2] \in Uppers \cup Lowers
    /\ caseNo[3] \in Digits
    /\ caseNo[4] \in Digits
    /\ caseNo[5] = "-"
    /\ \A i \in 6..Len(caseNo) : caseNo[i] \in Digits

\* isValidCaseNo: /^C[A-Z]\d{2}-\d+$/
isValidCaseNo(caseNo) ==
    /\ Len(caseNo) >= 6
    /\ caseNo[1] = "C"
    /\ caseNo[2] \in Uppers
    /\ caseNo[3] \in Digits
    /\ caseNo[4] \in Digits
    /\ caseNo[5] = "-"
    /\ \A i \in 6..Len(caseNo) : caseNo[i] \in Digits

\* the record parseCodeEnforcementCasesCsv builds from a row
RecordOf(row) ==
    [caseNo |-> Trim(row.CASE_NO),
     caseOpened |-> normalizeDate(row.STARTED),
     caseClosed |-> normalizeDate(row.CLOSED),
     caseType |-> row.CaseType]

\* a parser that would keep every row
RECURSIVE ParseUnvalidated(_)
ParseUnvalidated(rows) ==
    IF rows = <<>> THEN [records |-> <<>>, skipped |-> 0]
    ELSE LET rest == ParseUnvalidated(Tail(rows))
         IN  [rest EXCEPT !.records = <<RecordOf(Head(rows))>> \o @]

\* parseCodeEnforcementCasesCsv: the records of the rows with a valid case
\* number, in order, and the count of the rows skipped
RECURSIVE parseCodeEnforcementCasesCsv(_)
parseCodeEnforcementCasesCsv(rows) ==
    IF rows = <<>> THEN [records |-> <<>>, skipped |-> 0]
    ELSE LET rest == parseCodeEnforcementCasesCsv(Tail(rows))
         IN  IF ~isValidCaseNo(Trim(Head(rows).CASE_NO))
             THEN [rest EXCEPT !.skipped = @ + 1]
             ELSE [rest EXCEPT !.records = <<RecordOf(Head(rows))>> \o @]

\* the cells a delivered CSV may hold: CE24-1 and CE24-10 padded with
\* blanks; a lower-case number, a number without digits after the dash, an
\* empty cell
RawValidCaseNos == {CaseA, <<" ">> \o CaseB \o <<" ">>}
RawInvalidCaseNos ==
    {<<"c", "e", "2", "4", "-", "1">>, <<"C", "E", "2", "4", "-">>, <<>>}
RawStarted == {<<>>, <<"1", "/", "1", "/", "2", "0", "2", "5">>}
RawClosed ==
    {<<>>,
     <<"2", "/", "1", "/", "2", "0", "2", "5", " ",
       "1", "2", ":", "0", "0", ":", "0", "0", " ", "A", "M">>}
RawCaseTypes == {"CODE ENFORCEMENT", "ZONING"}

\* the rows of a delivered CSV; the rows the parser is to skip all carry
\* the same dates and type
RawRows ==
    [CASE_NO : RawValidCaseNos, STARTED : RawStarted, CLOSED : RawClosed,
     CaseType : RawCaseTypes]
    \cup [CASE_NO : RawInvalidCaseNos, STARTED : RawStarted \ {<<>>},
          CLOSED : {<<>>}, CaseType : {"ZONING"}]

\* the attachments a delivery may carry
Attachments == SeqsUpTo(RawRows, MaxBatch)

(* ---------------------------- rate limiter ---------------------------- *)
MIN_REQUEST_INTERVAL_MS == 200

Callers == 1..MaxCallers
RemoteOps == {"get", "search", "update"}

\* a limiter that would never wait
NoDelay(elapsed) == 0

\* rateLimitedRequest: the time to wait when elapsed ms have passed since
\* the last release (0: no wait)
Delay(elapsed) ==
    IF elapsed < MIN_REQUEST_INTERVAL_MS THEN MIN_REQUEST_INTERVAL_MS - elapsed ELSE 0

\* a caller outside rateLimitedRequest that has made no call yet
Outside ==
    [at |-> "idle", op |-> "none", wakeAt |-> NoTime, released |-> NoTime,
     waited |-> FALSE]

(* ------------------------- concurrent writers ------------------------- *)
Racers == 1..MaxRacers

\* a run that has not been handed its batch
NotRacing == [at |-> "idle", records |-> <<>>, written |-> 0, linked |-> FALSE]

(* ------------------------ strings to validate ------------------------- *)
\* the characters of the strings handed to isValidCaseNo
Alphabet == {"C", "E", "e", "2", "-"}
Candidates == SeqsUpTo(Alphabet, MaxIdLen)

(* --------------------------- remote matcher --------------------------- *)
\* the remote's filter on a string custom field: the value contains the
\* searched text (the case numbers of this model are upper case already)
IlikeContains(value, text) ==
    \E i \in 0..(Len(value) - Len(text)) : SubSeq(value, i + 1, i + Len(text)) = text

\* the tickets the remote store may hold when it is searched: none, or one
\* ticket, open or closed
RemoteStores ==
    {{}} \cup {{[ticket |-> t, closed |-> b]} : t \in Tickets, b \in BOOLEAN}

\* a search that would leave closed tickets out
SearchOpenOnly(caseNo) ==
    [cc_case_number |-> caseNo, limit |-> 1, include_closed |-> FALSE]

\* the body findTicketByCaseNumber has searchTicketsByCustomField post:
\* { cc_case_number: caseNo }, { limit: 1, includeClosed: true }
SearchRequest(caseNo) ==
    [cc_case_number |-> caseNo, limit |-> 1, include_closed |-> TRUE]

\* no search posted
NoRequest == [cc_case_number |-> <<>>, limit |-> 0, include_closed |-> FALSE]

\* the remote's answer 200 on a store: the tickets whose cc_case_number
\* matches, the closed ones only when include_closed is set, cut to limit;
\* closedMatch tells that a closed ticket of the store matches
RemoteSearch(request, store) ==
    LET matching == {e \in store :
                        IlikeContains(e.ticket.cc_case_number, request.cc_case_number)}
        hits == {e \in matching : request.include_closed \/ ~e.closed}
    IN  [status |-> 200,
         tickets |-> IF hits = {} \/ request.limit < 1 THEN <<>>
                     ELSE <<(CHOOSE e \in hits : TRUE).ticket>>,
         bodyHas405 |-> FALSE,
         closedMatch |-> \E e \in matching : e.closed]

\* what POST /tickets/search may answer to a request: the remote's answer on
\* its store, or an error status whose body may itself hold the text 405
SearchResponses(request) ==
    {RemoteSearch(request, store) : store \in RemoteStores}
    \cup {[status |-> st, tickets |-> <<>>, bodyHas405 |-> b, closedMatch |-> FALSE] :
              st \in {405, 500}, b \in BOOLEAN}

\* what GET /tickets/{id} may answer
GetResponses(ticketId) ==
    {[status |-> st, ticket |-> NoTicketFound] : st \in {404, 500}}
    \cup {[status |-> 200, ticket |-> t] : t \in {u \in Tickets : u.id = ticketId}}

\* `Failed to search tickets: ${response.status} ${error}`.includes('405')
MessageIncludes405(resp) == resp.status = 405 \/ resp.bodyHas405

\* one entry of the run's record of remote calls
Call(op, caseNo, ticketId) == [op |-> op, caseNo |-> caseNo, ticketId |-> ticketId]

NoPayload == [f \in {} |-> Null]

\* a matcher that would search whatever the flag says
SearchAnyway(caseNo, available, resp) ==
    LET made == <<Call("search", caseNo, NoTicket)>>
    IN  IF resp.status = 200
        THEN [ticket |-> IF resp.tickets = <<>> THEN NoTicketFound ELSE resp.tickets[1],
              threw |-> FALSE, available |-> available, calls |-> made, failed |-> 0]
        ELSE IF resp.status = 405 \/ resp.bodyHas405
        THEN [ticket |-> NoTicketFound, threw |-> FALSE, available |-> FALSE,
              calls |-> made, failed |-> 1]
        ELSE [ticket |-> NoTicketFound, threw |-> TRUE, available |-> available,
              calls |-> made, failed |-> 1]

\* a matcher that would forget the flag after one skipped search
ForgetfulFind(caseNo, available, resp) ==
    IF ~available
    THEN [ticket |-> NoTicketFound, threw |-> FALSE, available |-> TRUE,
          calls |-> <<>>, failed |-> 0]
    ELSE IF resp.status = 200
    THEN [ticket |-> IF resp.tickets = <<>> THEN NoTicketFound ELSE resp.tickets[1],
          threw |-> FALSE, available |-> TRUE,
          calls |-> <<Call("search", caseNo, NoTicket)>>, failed |-> 0]
    ELSE [ticket |-> NoTicketFound, threw |-> FALSE, available |-> FALSE,
          calls |-> <<Call("search", caseNo, NoTicket)>>, failed |-> 1]

\* findTicketByCaseNumber: the ticket (or none), whether it threw, the flag
\* afterwards, the remote calls it made and how many of them failed
FindTicketByCaseNumber(caseNo, available, resp) ==
    IF ~available
    THEN [ticket |-> NoTicketFound, threw |-> FALSE, available |-> FALSE,
          calls |-> <<>>, failed |-> 0]
    ELSE LET made == <<Call("search", caseNo, NoTicket)>>
         IN  IF resp.status = 200
             THEN [ticket |-> IF resp.tickets = <<>> THEN NoTicketFound ELSE resp.tickets[1],
                   threw |-> FALSE, available |-> TRUE, calls |-> made, failed |-> 0]
             ELSE IF MessageIncludes405(resp)
             THEN [ticket |-> NoTicketFound, threw |-> FALSE, available |-> FALSE,
                   calls |-> made, failed |-> 1]
             ELSE [ticket |-> NoTicketFound, threw |-> TRUE, available |-> TRUE,
                   calls |-> made, failed |-> 1]

\* a resolution that would search without looking at the cached id
SearchFirst(change, available, getResp, searchResp) ==
    IF ~available
    THEN [ticket |-> NoTicketFound, threw |-> FALSE, available |-> FALSE,
          calls |-> <<>>, failed |-> 0]
    ELSE [ticket |-> NoTicketFound, threw |-> FALSE, available |-> TRUE,
          calls |-> <<Call("search", change.caseNo, NoTicket)>>, failed |-> 0]

\* cases-sync.ts 85-98: the cached id first, the search when there is none or
\* when the fetch reports 404
ResolveTicket(change, available, getResp, searchResp) ==
    IF change.threefoldTicketId # NoTicket
    THEN LET got == <<Call("get", change.caseNo, change.threefoldTicketId)>>
         IN  IF getResp.status = 200
             THEN [ticket |-> getResp.ticket, threw |-> FALSE, available |-> available,
                   calls |-> got, failed |-> 0]
             ELSE IF getResp.status = 404
             THEN LET found == FindTicketByCaseNumber(change.caseNo, available, searchResp)
                  IN  [found EXCEPT !.calls = got \o found.calls]
             ELSE [ticket |-> NoTicketFound, threw |-> TRUE, available |-> available,
                   calls |-> got, failed |-> 1]
    ELSE FindTicketByCaseNumber(change.caseNo, available, searchResp)

(* --------------------------- field reconciler ------------------------- *)
wantOpened(change) == OrNull(change.record.caseOpened)
wantClosed(change) == OrNull(change.record.caseClosed)
wantStatus(change) ==
    determineCaseStatus(change.record.caseOpened, change.record.caseClosed)

hasOpenedChange(t, change) == OrNull(t.cc_case_opened) # wantOpened(change)
hasClosedChange(t, change) == OrNull(t.case_close_date) # wantClosed(change)
hasStatusChange(t, change) == OrNull(t.last_case_status) # wantStatus(change)

\* cases-sync.ts 124: nothing differs
NoDiff(t, change) ==
    ~hasOpenedChange(t, change) /\ ~hasClosedChange(t, change) /\ ~hasStatusChange(t, change)

\* a payload that would always hold the three fields
AllFields(t, change) ==
    [k \in {"cc_case_opened", "case_close_date", "last_case_status"} |->
        CASE k = "cc_case_opened" -> change.record.caseOpened
          [] k = "case_close_date" -> change.record.caseClosed
          [] k = "last_case_status" -> "open"]

\* cases-sync.ts 133-145: the payload holds the fields that changed
UpdateFields(t, change) ==
    LET keys == {k \in {"cc_case_opened"} :
                     hasOpenedChange(t, change) /\ Truthy(wantOpened(change))}
                \cup {k \in {"case_close_date"} : hasClosedChange(t, change)}
                \cup {k \in {"last_case_status"} : hasStatusChange(t, change)}
    IN  [k \in keys |->
            CASE k = "cc_case_opened" -> wantOpened(change)
              [] k = "case_close_date" -> wantClosed(change)
              [] k = "last_case_status" -> wantStatus(change)]


(* ------------------------------- state -------------------------------- *)
VARIABLES
    caseUpdatesEnabled,  \* config.caseUpdatesEnabled, fixed for the process
    searchApiAvailable,  \* the module-level flag of the matcher
    case_state,          \* table case_state: case_no -> row
    sync_log,            \* table sync_log: id -> row
    clock,               \* NOW(): one tick per call of processCasesSync
    runs,                \* calls of processCasesSync in this process
    pc,                  \* where the current run stands
    records,             \* the batch of the current run
    syncId,              \* the sync_log id of the current run
    changes,             \* the result of diffCases
    processed, updated, notFound, noChanges, errors,
    ticket,              \* the ticket resolved for the current change
    err,                 \* the error on its way to the caller
    result,              \* how the last run ended: returned or thrown
    calls,               \* the remote calls of the current run, in order
    sent,                \* the payload of the remote write of the last step
    outcomes,            \* how each processed change of the run ended
    state0,              \* case_state when the current run started
    repeat,              \* the run replays the batch of a run that returned
    delivered,           \* records delivered so far, replays not counted
    answered,            \* the responses the matcher consumed in the last step
    pending,             \* the cases the run before counted as not found
    faults,              \* rejected store operations and failed remote calls so far
    csv,                 \* the rows of the attachment the webhook handles
    skipped,             \* the rows the parser skipped in that attachment
    cleared,             \* requests served by POST /admin/clear-cache
    now,                 \* Date.now()
    lastRequestTime,     \* the module-level time of the last release
    limiter,             \* each caller's place in rateLimitedRequest and its last release
    racers,              \* the runs that write case_state at the same time
    candidate,           \* the string handed to isValidCaseNo
    verdict              \* what isValidCaseNo said of it

storeVars == <<case_state, sync_log>>
counters == <<processed, updated, notFound, noChanges, errors>>
runVars == <<records, syncId, changes, state0, repeat, delivered, clock, runs, pending>>
vars ==
    <<caseUpdatesEnabled, searchApiAvailable, case_state, sync_log, clock, runs,
      pc, records, syncId, changes, processed, updated, notFound, noChanges,
      errors, ticket, err, result, calls, sent, outcomes, state0, repeat,
      delivered, answered, pending, faults, csv, skipped, cleared,
      now, lastRequestTime, limiter, racers, candidate, verdict>>
serviceVars == <<csv, skipped, cleared>>
rateVars == <<now, lastRequestTime, limiter>>
sideVars == <<racers, candidate, verdict>>
engineVars ==
    <<caseUpdatesEnabled, searchApiAvailable, case_state, sync_log, clock, runs,
      pc, records, syncId, changes, processed, updated, notFound, noChanges,
      errors, ticket, err, result, calls, sent, outcomes, state0, repeat,
      delivered, answered, pending, faults, csv, skipped, cleared>>

NoError == ""

\* no remote call made: status 0
NoAnswers ==
    [get |-> 0, search |-> 0, bodyHas405 |-> FALSE, closedMatch |-> FALSE,
     request |-> NoRequest]

\* the status of each response the matcher consumed for one change
Answered(made, getResp, searchResp) ==
    LET called(op) == \E i \in DOMAIN made : made[i].op = op
    IN  [get |-> IF called("get") THEN getResp.status ELSE 0,
         search |-> IF called("search") THEN searchResp.status ELSE 0,
         bodyHas405 |-> called("search") /\ searchResp.bodyHas405,
         closedMatch |-> called("search") /\ searchResp.closedMatch,
         request |-> IF called("search")
                     THEN SearchRequest(made[Len(made)].caseNo) ELSE NoRequest]

\* The tables outlive the process.  A process starts on the empty tables of
\* initDb, or on the tables two earlier runs left: CE24-1 first seen with no
\* ticket, then delivered with its opened date, its ticket 1 found by the
\* search, updated and linked.
SeedRecord ==
    [caseNo |-> CaseA, caseOpened |-> "2025-01-01", caseClosed |-> Null,
     caseType |-> "CODE ENFORCEMENT"]

SeedState ==
    UpdateCaseThreefoldId(
        [UpsertRow(NoRows, SeedRecord, 2) EXCEPT ![CaseA].created_at = 1], CaseA, 1)

SeedLog ==
    <<[started_at |-> 1, completed_at |-> 1, total_records |-> 1,
       changed_records |-> 0, errors |-> 0, error_message |-> Null],
      [started_at |-> 2, completed_at |-> 2, total_records |-> 1,
       changed_records |-> 1, errors |-> 0, error_message |-> Null]>>

Start(spent) ==
    /\ caseUpdatesEnabled \in BOOLEAN
    /\ searchApiAvailable = TRUE
    /\ \/ case_state = NoRows /\ sync_log = <<>> /\ clock = 0
       \/ case_state = SeedState /\ sync_log = SeedLog /\ clock = 2
    /\ runs = 0
    /\ pc = "idle"
    /\ records = <<>>
    /\ syncId = 0
    /\ changes = <<>>
    /\ processed = 0 /\ updated = 0 /\ notFound = 0 /\ noChanges = 0 /\ errors = 0
    /\ ticket = NoTicketFound
    /\ err = NoError
    /\ result = "none"
    /\ calls = <<>>
    /\ sent = NoPayload
    /\ outcomes = <<>>
    /\ state0 = case_state
    /\ repeat = FALSE
    /\ delivered = 0
    /\ answered = NoAnswers
    /\ pending = {}
    /\ faults = spent
    /\ csv = <<>>
    /\ skipped = 0
    /\ cleared = 0
    /\ now = StartTime
    /\ lastRequestTime = 0
    /\ limiter = [c \in Callers |-> Outside]
    /\ racers = [r \in Racers |-> NotRacing]
    /\ candidate = Null
    /\ verdict = "none"

Init == Start(0)

\* one entry of outcomes
Outcome(caseNo, bucket, cause, ticketId) ==
    [caseNo |-> caseNo, bucket |-> bucket, cause |-> cause, ticketId |-> ticketId]

\* the loop of cases-sync.ts 73: the next change, or the final upsert
AfterChange(n) == IF n < Len(changes) THEN "resolve" ELSE "persist"

\* the answers of a store operation or remote write: success, and failure
\* while the fault budget lasts
MayFail == IF faults < MaxFaults THEN BOOLEAN ELSE {TRUE}
Spent(ok) == IF ok THEN 0 ELSE 1

(* ------------------------------ actions ------------------------------- *)
\* processCasesSync is called with a batch; createSyncLog inserts the run's
\* row (line 35, outside the try: a rejected insert throws with no row)
BeginRun(batch, fresh, dbOk) ==
        /\ clock' = clock + 1
        /\ runs' = runs + 1
        /\ delivered' = delivered + fresh
        /\ faults' = faults + Spent(dbOk)
        /\ records' = batch
        /\ state0' = case_state
        /\ repeat' = (result = "returned" /\ batch = records)
        /\ changes' = <<>>
        /\ processed' = 0 /\ updated' = 0 /\ notFound' = 0 /\ noChanges' = 0 /\ errors' = 0
        /\ ticket' = NoTicketFound
        /\ calls' = <<>>
        /\ sent' = NoPayload
        /\ answered' = NoAnswers
        /\ pending' = IF result = "returned"
                      THEN {outcomes[i].caseNo :
                                i \in {j \in DOMAIN outcomes : outcomes[j].bucket = "notFound"}}
                      ELSE {}
        /\ outcomes' = <<>>
        /\ IF dbOk
           THEN /\ sync_log' = Append(sync_log, NewSyncLogRow(clock'))
                /\ syncId' = Len(sync_log) + 1
                /\ pc' = "detect"
                /\ err' = NoError
                /\ result' = "none"
           ELSE /\ sync_log' = sync_log
                /\ syncId' = 0
                /\ pc' = "idle"
                /\ err' = "createSyncLog failed"
                /\ result' = "thrown"

StartRun ==
    /\ pc = "idle"
    /\ runs < MaxRuns
    /\ \E batch \in {b \in Batches : b = records \/ delivered + Len(b) <= MaxRecords},
          dbOk \in MayFail :
        BeginRun(batch, IF batch = records THEN 0 ELSE Len(batch), dbOk)
    /\ UNCHANGED <<caseUpdatesEnabled, searchApiAvailable, case_state, serviceVars, rateVars, sideVars>>

\* line 48: diffCases, and the branch on changes.length
Detect ==
    /\ pc = "detect"
    /\ \E dbOk \in MayFail :
        /\ faults' = faults + Spent(dbOk)
        /\ IF dbOk
           THEN /\ changes' = DiffCases(records, case_state)
                /\ pc' = IF changes' = <<>> THEN "zero" ELSE "resolve"
                /\ err' = err
           ELSE /\ changes' = changes
                /\ pc' = "catch"
                /\ err' = "diffCases failed"
    /\ UNCHANGED <<caseUpdatesEnabled, searchApiAvailable, storeVars, clock, runs,
                   records, syncId, state0, repeat, delivered, counters, ticket,
                   result, calls, sent, outcomes, answered, pending, serviceVars, rateVars, sideVars>>

\* upsertCaseState(records) then completeSyncLog(syncId, records.length,
\* changedRecords, errs): lines 55-57 and 176-191
PersistAndComplete(changedRecords, errs) ==
    \E failAt \in {k \in 0..NChunks(records) : k = 0 \/ faults < MaxFaults},
       logOk \in MayFail :
        /\ case_state' = UpsertCaseState(case_state, records, clock, failAt)
        /\ IF failAt # 0
           THEN /\ sync_log' = sync_log
                /\ pc' = "catch"
                /\ err' = "upsertCaseState failed"
                /\ result' = result
                /\ faults' = faults + 1
           ELSE IF logOk
           THEN /\ sync_log' = CompleteSyncLog(sync_log, syncId, Len(records),
                                               changedRecords, errs, Null, clock)
                /\ pc' = "idle"
                /\ err' = err
                /\ result' = "returned"
                /\ faults' = faults
           ELSE /\ sync_log' = sync_log
                /\ pc' = "catch"
                /\ err' = "completeSyncLog failed"
                /\ result' = result
                /\ faults' = faults + 1

\* lines 52-58: no change, the batch is still upserted
PersistZero ==
    /\ pc = "zero"
    /\ PersistAndComplete(0, 0)
    /\ sent' = NoPayload
    /\ answered' = NoAnswers
    /\ UNCHANGED <<caseUpdatesEnabled, searchApiAvailable, runVars,
                   counters, ticket, calls, outcomes, serviceVars, rateVars, sideVars>>

\* a link that would be cached before the remote write is known to succeed
LinkBeforeWrite(state, caseNo, ticketId, updOk, linkOk) ==
    IF linkOk THEN UpdateCaseThreefoldId(state, caseNo, ticketId) ELSE state

\* lines 162-165: updateCaseThreefoldId follows updateTicketCustomFields; a
\* write that throws leaves the link as it is
LinkAfterWrite(state, caseNo, ticketId, updOk, linkOk) ==
    IF updOk /\ linkOk THEN UpdateCaseThreefoldId(state, caseNo, ticketId) ELSE state

\* a switch that would never skip
NeverDryRun == FALSE

\* a per-case error that would leave the loop for the outer catch
Rethrow(n) == "catch"

\* line 80: the dry-run switch
DryRun == ~caseUpdatesEnabled

\* lines 168-171: the per-case catch counts the error and the loop goes on
PerCaseCatch(n) == AfterChange(n)

\* the answers the matcher consumes for a change: a fetch when an id is
\* cached, a search when the fetch reports 404 or no id is cached and the
\* search is still enabled
GetAnswers(change) ==
    IF change.threefoldTicketId # NoTicket
    THEN GetResponses(change.threefoldTicketId)
    ELSE {[status |-> 404, ticket |-> NoTicketFound]}

SearchAnswers(change, getResp) ==
    IF getResp.status = 404 /\ searchApiAvailable
    THEN SearchResponses(SearchRequest(change.caseNo))
    ELSE {[status |-> 200, tickets |-> <<>>, bodyHas405 |-> FALSE, closedMatch |-> FALSE]}

\* lines 74-104: the dry-run skip, or the ticket of the next change
Resolve ==
    /\ pc = "resolve"
    /\ sent' = NoPayload
    /\ LET change == changes[processed + 1]
       IN  /\ processed' = processed + 1
           /\ IF DryRun
              THEN /\ outcomes' = Append(outcomes,
                          Outcome(change.caseNo, "dry", "none", NoTicket))
                   /\ answered' = NoAnswers
                   /\ pc' = AfterChange(processed')
                   /\ UNCHANGED <<searchApiAvailable, notFound, errors, ticket, calls, faults>>
              ELSE \E getResp \in GetAnswers(change) :
                   \E searchResp \in SearchAnswers(change, getResp) :
                      LET r == ResolveTicket(change, searchApiAvailable, getResp, searchResp)
                      IN  /\ faults + r.failed <= MaxFaults
                          /\ faults' = faults + r.failed
                          /\ searchApiAvailable' = r.available
                          /\ calls' = calls \o r.calls
                          /\ answered' = Answered(r.calls, getResp, searchResp)
                          /\ IF r.threw
                             THEN /\ errors' = errors + 1
                                  /\ outcomes' = Append(outcomes,
                                         Outcome(change.caseNo, "error", "remote", NoTicket))
                                  /\ pc' = PerCaseCatch(processed')
                                  /\ UNCHANGED <<notFound, ticket>>
                             ELSE IF r.ticket.id = NoTicket
                             THEN /\ notFound' = notFound + 1
                                  /\ outcomes' = Append(outcomes,
                                         Outcome(change.caseNo, "notFound", "none", NoTicket))
                                  /\ pc' = AfterChange(processed')
                                  /\ UNCHANGED <<errors, ticket>>
                             ELSE /\ ticket' = r.ticket
                                  /\ pc' = "apply"
                                  /\ UNCHANGED <<notFound, errors, outcomes>>
    /\ UNCHANGED <<caseUpdatesEnabled, storeVars, runVars, updated, noChanges,
                   err, result, serviceVars, rateVars, sideVars>>

\* lines 106-171: the diff against the ticket, the remote write, the cached
\* link; whatever throws inside is caught by the per-case catch
Apply ==
    /\ pc = "apply"
    /\ LET change == changes[processed]
       IN  IF NoDiff(ticket, change)
           THEN \E linkOk \in MayFail :
                   /\ calls' = calls
                   /\ sent' = NoPayload
                   /\ faults' = faults + Spent(linkOk)
                   /\ IF linkOk
                      THEN /\ case_state' = UpdateCaseThreefoldId(case_state, change.caseNo, ticket.id)
                           /\ noChanges' = noChanges + 1
                           /\ outcomes' = Append(outcomes,
                                  Outcome(change.caseNo, "noChanges", "none", ticket.id))
                           /\ pc' = AfterChange(processed)
                           /\ UNCHANGED <<updated, errors>>
                      ELSE /\ case_state' = case_state
                           /\ errors' = errors + 1
                           /\ outcomes' = Append(outcomes,
                                  Outcome(change.caseNo, "error", "store", ticket.id))
                           /\ pc' = PerCaseCatch(processed)
                           /\ UNCHANGED <<updated, noChanges>>
           ELSE \E updOk \in MayFail, linkOk \in MayFail :
                   /\ calls' = Append(calls, Call("update", change.caseNo, ticket.id))
                   /\ sent' = UpdateFields(ticket, change)
                   /\ case_state' = LinkAfterWrite(case_state, change.caseNo, ticket.id,
                                                   updOk, linkOk)
                   /\ IF ~updOk
                      THEN /\ faults' = faults + 1
                           /\ errors' = errors + 1
                           /\ outcomes' = Append(outcomes,
                                  Outcome(change.caseNo, "error", "remote", ticket.id))
                           /\ pc' = PerCaseCatch(processed)
                           /\ UNCHANGED <<updated, noChanges>>
                      ELSE IF linkOk
                      THEN /\ faults' = faults
                           /\ updated' = updated + 1
                           /\ outcomes' = Append(outcomes,
                                  Outcome(change.caseNo, "updated", "none", ticket.id))
                           /\ pc' = AfterChange(processed)
                           /\ UNCHANGED <<noChanges, errors>>
                      ELSE /\ faults' = faults + 1
                           /\ errors' = errors + 1
                           /\ outcomes' = Append(outcomes,
                                  Outcome(change.caseNo, "error", "store", ticket.id))
                           /\ pc' = PerCaseCatch(processed)
                           /\ UNCHANGED <<updated, noChanges>>
    /\ ticket' = NoTicketFound
    /\ answered' = NoAnswers
    /\ UNCHANGED <<caseUpdatesEnabled, searchApiAvailable, sync_log,
                   runVars, processed, notFound, err, result, serviceVars, rateVars, sideVars>>

\* lines 174-191: after the loop
Persist ==
    /\ pc = "persist"
    /\ PersistAndComplete(updated, errors)
    /\ sent' = NoPayload
    /\ answered' = NoAnswers
    /\ UNCHANGED <<caseUpdatesEnabled, searchApiAvailable, runVars,
                   counters, ticket, calls, outcomes, serviceVars, rateVars, sideVars>>

\* lines 192-197: completeSyncLog with the message, then the error is
\* rethrown; a rejected completeSyncLog throws in its place
Catch ==
    /\ pc = "catch"
    /\ \E logOk \in MayFail :
        /\ faults' = faults + Spent(logOk)
        /\ IF logOk
           THEN /\ sync_log' = CompleteSyncLog(sync_log, syncId, Len(records), 0, 1, err, clock)
                /\ err' = err
           ELSE /\ sync_log' = sync_log
                /\ err' = "completeSyncLog failed"
    /\ pc' = "idle"
    /\ result' = "thrown"
    /\ UNCHANGED <<caseUpdatesEnabled, searchApiAvailable, case_state,
                   runVars, counters, ticket, calls, sent, outcomes, answered,
                   serviceVars, rateVars, sideVars>>

Next ==
    \/ StartRun
    \/ Detect
    \/ PersistZero
    \/ Resolve
    \/ Apply
    \/ Persist
    \/ Catch

Spec == Init /\ [][Next]_vars

(* ------------------------------ the service --------------------------- *)
\* webhook.ts 89-101: one CSV attachment is parsed and the records that
\* passed the parser are handed to processCasesSync
Deliver ==
    /\ pc = "idle"
    /\ runs < MaxDeliveries
    /\ \E rows \in {a \in Attachments : a = csv \/ delivered + Len(a) <= MaxRecords},
          dbOk \in MayFail :
        LET cases == parseCodeEnforcementCasesCsv(rows)
        IN  /\ csv' = rows
            /\ skipped' = cases.skipped
            /\ BeginRun(cases.records, IF rows = csv THEN 0 ELSE Len(rows), dbOk)
    /\ UNCHANGED <<caseUpdatesEnabled, searchApiAvailable, case_state, cleared, rateVars, sideVars>>

\* clearCaseCache: what the State Store may do when its cache is cleared;
\* its rows are overwritten, never removed, so the cached links are dropped
\* or the table is left as it is
clearCaseCache(state) ==
    {state, [c \in DOMAIN state |-> [state[c] EXCEPT !.threefold_ticket_id = NoTicket]]}

\* index.ts 19-30: POST /admin/clear-cache, served at any moment
ClearCache ==
    /\ cleared < MaxClears
    /\ cleared' = cleared + 1
    /\ case_state' \in clearCaseCache(case_state)
    /\ UNCHANGED <<caseUpdatesEnabled, searchApiAvailable, sync_log, runVars, pc,
                   counters, ticket, err, result, calls, sent, outcomes, answered,
                   faults, csv, skipped, rateVars, sideVars>>

ServiceNext ==
    \/ Deliver
    \/ ClearCache
    \/ Detect
    \/ PersistZero
    \/ Resolve
    \/ Apply
    \/ Persist
    \/ Catch

ServiceInit == Start(MaxFaults - MaxServiceFaults)

ServiceSpec == ServiceInit /\ [][ServiceNext]_vars

(* ---------------------------- the limiter ----------------------------- *)
\* time passes
Tick ==
    /\ now < MaxTime
    /\ now' = now + TickMs
    /\ UNCHANGED <<lastRequestTime, limiter, engineVars, sideVars>>

\* tracker.ts 314: lastRequestTime = Date.now(), and the request goes out
Release(c, op, waited) ==
    /\ lastRequestTime' = now
    /\ limiter' = [limiter EXCEPT ![c] =
                       [at |-> "fetching", op |-> op, wakeAt |-> NoTime,
                        released |-> now, waited |-> waited]]

\* tracker.ts 306-311: a remote call of caller c enters rateLimitedRequest;
\* it goes to sleep for the rest of the interval or is released at once
Enter(c) ==
    /\ limiter[c].at = "idle"
    /\ \E op \in RemoteOps :
          LET elapsed == now - lastRequestTime
          IN  IF Delay(elapsed) > 0
              THEN /\ limiter' = [limiter EXCEPT ![c].at = "sleeping", ![c].op = op,
                                                 ![c].wakeAt = now + Delay(elapsed)]
                   /\ lastRequestTime' = lastRequestTime
              ELSE Release(c, op, FALSE)
    /\ UNCHANGED <<now, engineVars, sideVars>>

\* tracker.ts 311-314: the timer fires, not before its delay has passed
Wake(c) ==
    /\ limiter[c].at = "sleeping"
    /\ now >= limiter[c].wakeAt
    /\ Release(c, limiter[c].op, TRUE)
    /\ UNCHANGED <<now, engineVars, sideVars>>

\* the response arrives: the caller's run goes on to its next call
Return(c) ==
    /\ limiter[c].at = "fetching"
    /\ limiter' = [limiter EXCEPT ![c].at = "idle"]
    /\ UNCHANGED <<now, lastRequestTime, engineVars, sideVars>>

RateNext ==
    \/ Tick
    \/ \E c \in Callers : Enter(c)
    \/ \E c \in Callers : Wake(c)
    \/ \E c \in Callers : Return(c)

RateSpec == Init /\ [][RateNext]_vars

(* ------------------------- runs at the same time ---------------------- *)
\* everything but case_state and the racing runs
raceFrame ==
    <<caseUpdatesEnabled, searchApiAvailable, sync_log, clock, runs,
      pc, records, syncId, changes, processed, updated, notFound, noChanges,
      errors, ticket, err, result, calls, sent, outcomes, state0, repeat,
      delivered, answered, pending, faults, serviceVars, rateVars, candidate, verdict>>

RECURSIVE SumLen(_)
SumLen(rs) ==
    IF rs = {} THEN 0
    ELSE LET r == CHOOSE x \in rs : TRUE
         IN  Len(racers[r].records) + SumLen(rs \ {r})
RaceRecords == SumLen(Racers)

\* a delivery is handed to processCasesSync while another run is under way
RaceStart(r) ==
    /\ racers[r].at = "idle"
    /\ \E batch \in {b \in Batches : b # <<>> /\ RaceRecords + Len(b) <= MaxRaceRecords} :
          racers' = [racers EXCEPT ![r] = [at |-> "loop", records |-> batch,
                                          written |-> 0, linked |-> FALSE]]
    /\ UNCHANGED <<case_state, raceFrame>>

\* cases-sync.ts 127 and 165: the run caches a link for a case of its batch
RaceLink(r) ==
    /\ racers[r].at = "loop"
    /\ ~racers[r].linked
    /\ \E i \in DOMAIN racers[r].records, t \in TicketIds :
          case_state' = UpdateCaseThreefoldId(case_state, racers[r].records[i].caseNo, t)
    /\ racers' = [racers EXCEPT ![r].linked = TRUE]
    /\ UNCHANGED raceFrame

\* cases-sync.ts 176: the loop is over, upsertCaseState begins
RaceUpsert(r) ==
    /\ racers[r].at = "loop"
    /\ racers' = [racers EXCEPT ![r].at = "upserting"]
    /\ UNCHANGED <<case_state, raceFrame>>

\* tracker.ts 220-263: the next chunk is written by one statement, or the
\* statement is rejected and the run is aborted
RaceChunk(r) ==
    /\ racers[r].at = "upserting"
    /\ LET k == racers[r].written + 1
       IN  \/ /\ case_state' = UpsertRows(case_state, Chunk(racers[r].records, k), clock + r)
              /\ racers' = [racers EXCEPT
                                ![r].written = k,
                                ![r].at = IF k = NChunks(racers[r].records)
                                          THEN "done" ELSE "upserting"]
           \/ /\ case_state' = case_state
              /\ racers' = [racers EXCEPT ![r].at = "aborted"]
    /\ UNCHANGED raceFrame

RaceNext ==
    \/ \E r \in Racers : RaceStart(r)
    \/ \E r \in Racers : RaceLink(r)
    \/ \E r \in Racers : RaceUpsert(r)
    \/ \E r \in Racers : RaceChunk(r)

RaceSpec == Init /\ [][RaceNext]_vars

(* ------------------------------ validation ---------------------------- *)
\* a string reaches isValidCaseNo
Submit ==
    /\ candidate = Null
    /\ candidate' \in Candidates
    /\ UNCHANGED <<verdict, racers, engineVars, rateVars>>

\* index.ts 127-129
Validate ==
    /\ candidate # Null
    /\ verdict = "none"
    /\ verdict' = IF isValidCaseNo(candidate) THEN "valid" ELSE "invalid"
    /\ UNCHANGED <<candidate, racers, engineVars, rateVars>>

ValidateNext == Submit \/ Validate

ValidateSpec == Init /\ [][ValidateNext]_vars

(* ----------------------- vocabulary of the claims --------------------- *)
\* the last run ended (its row was created), by returning or by throwing
RunEnded == pc = "idle" /\ syncId # 0 /\ result \in {"returned", "thrown"}
RunReturned == pc = "idle" /\ syncId # 0 /\ result = "returned"

\* diffCases has returned in the current run
Detected == pc \in {"zero", "resolve", "apply", "persist"} \/ RunReturned

BatchCaseNos == {records[i].caseNo : i \in DOMAIN records}

\* the last record of the batch with this case number
LastOccurrence(c) ==
    LET at == {i \in DOMAIN records : records[i].caseNo = c}
    IN  records[CHOOSE i \in at : \A j \in at : j <= i]

\* the fingerprint content of a record: caseNo|caseOpened|caseClosed
Fingerprint(r) ==
    <<r.caseNo, IF r.caseOpened = Null THEN "" ELSE r.caseOpened,
      IF r.caseClosed = Null THEN "" ELSE r.caseClosed>>

StatusOf(r) == IF r.caseOpened # Null /\ r.caseClosed # Null THEN "closed" ELSE "open"

\* the row of case c holds the record r as written in the current run
RowHolds(c, r) ==
    /\ c \in DOMAIN case_state
    /\ case_state[c].case_opened = r.caseOpened
    /\ case_state[c].case_closed = r.caseClosed
    /\ case_state[c].case_status = StatusOf(r)
    /\ case_state[c].case_type = r.caseType
    /\ case_state[c].content_hash = Fingerprint(r)
    /\ case_state[c].last_seen_at = clock

\* the whole deduplicated batch is in the table, written in this run
BatchPersisted == \A c \in BatchCaseNos : RowHolds(c, LastOccurrence(c))

WritesFor(c) == {i \in DOMAIN calls : calls[i].op = "update" /\ calls[i].caseNo = c}
Writes == {i \in DOMAIN calls : calls[i].op = "update"}

RemoteErrors == {i \in DOMAIN outcomes : outcomes[i].cause = "remote"}
StoreErrors == {i \in DOMAIN outcomes : outcomes[i].cause = "store"}

\* the ticket resolved for the current change holds the desired values
TicketUpToDate ==
    LET r == changes[processed].record
        norm(x) == IF x = Null \/ x = "" THEN Null ELSE x
    IN  /\ norm(ticket.cc_case_opened) = norm(r.caseOpened)
        /\ norm(ticket.case_close_date) = norm(r.caseClosed)
        /\ norm(ticket.last_case_status) = StatusOf(r)

(* ------------------------------- claims ------------------------------- *)
\* C1: a run that replays the batch of the run before it, which returned,
\* issues no remote write and leaves the content_hash of every case of the
\* batch as it found it.
C1_Idempotent ==
    repeat =>
        /\ Writes = {}
        /\ \A c \in BatchCaseNos :
              /\ c \in DOMAIN state0
              /\ c \in DOMAIN case_state
              /\ case_state[c].content_hash = state0[c].content_hash

C1_Witness == repeat /\ RunReturned /\ Len(records) = 2 /\ state0 # NoRows

\* C2: when the resolved ticket already holds the desired opened date, closed
\* date and status (null and empty alike), the step issues no remote write
\* and counts the case as already up to date.
C2_NoOpGuard ==
    [][(pc = "apply" /\ TicketUpToDate) =>
          (calls' = calls /\ noChanges' = noChanges + 1 /\ errors' = errors)]_vars

\* C3: in one run no case number gets more than one remote write.
C3_OneWritePerCase == \A c \in CaseNos : Cardinality(WritesFor(c)) <= 1

C3_Witness ==
    /\ Len(records) = 2
    /\ records[1].caseNo = records[2].caseNo
    /\ WritesFor(records[1].caseNo) # {}

\* C4: a case number delivered several times yields at most one change, built
\* from its last occurrence, and the row the run writes for it holds the
\* dates, status and fingerprint of that last occurrence.
C4_LastOccurrenceWins ==
    /\ \A i, j \in DOMAIN changes : changes[i].caseNo = changes[j].caseNo => i = j
    /\ Detected =>
          \A i \in DOMAIN changes :
              /\ changes[i].caseNo \in BatchCaseNos
              /\ changes[i].record = LastOccurrence(changes[i].caseNo)
    /\ \A c \in BatchCaseNos :
          (c \in DOMAIN case_state /\ case_state[c].last_seen_at = clock)
              => RowHolds(c, LastOccurrence(c))
    /\ RunReturned => BatchPersisted

C4_Witness ==
    /\ RunReturned
    /\ Len(records) = 2
    /\ records[1].caseNo = records[2].caseNo
    /\ records[1].caseClosed # records[2].caseClosed
    /\ Len(changes) = 1

\* C5: diffCases classifies every case of the deduplicated batch: a new
\* change (no previous field, no link) iff no row is stored; a change carrying
\* the stored fingerprint, dates, status and link iff a row is stored with
\* another content_hash; nothing iff the stored content_hash is equal.
C5_Classification ==
    Detected =>
        /\ \A i \in DOMAIN changes : changes[i].caseNo \in BatchCaseNos
        /\ \A c \in BatchCaseNos :
              LET r == LastOccurrence(c)
                  cs == {i \in DOMAIN changes : changes[i].caseNo = c}
                  stored == c \in DOMAIN state0
              IN  /\ Cardinality(cs) <= 1
                  /\ \A i \in cs : changes[i].record = r /\ changes[i].newHash = Fingerprint(r)
                  /\ ~stored <=>
                        \E i \in cs :
                            /\ changes[i].isNew
                            /\ changes[i].previousHash = NoHash
                            /\ changes[i].previousOpened = Null
                            /\ changes[i].previousClosed = Null
                            /\ changes[i].previousStatus = Null
                            /\ changes[i].threefoldTicketId = NoTicket
                  /\ (stored /\ state0[c].content_hash # Fingerprint(r)) <=>
                        \E i \in cs :
                            /\ ~changes[i].isNew
                            /\ stored
                            /\ changes[i].previousHash = state0[c].content_hash
                            /\ changes[i].previousOpened = state0[c].case_opened
                            /\ changes[i].previousClosed = state0[c].case_closed
                            /\ changes[i].previousStatus = state0[c].case_status
                            /\ changes[i].threefoldTicketId = state0[c].threefold_ticket_id
                  /\ (stored /\ state0[c].content_hash = Fingerprint(r)) <=> cs = {}

C5_Witness ==
    /\ Detected
    /\ Len(records) = 2
    /\ \E i \in DOMAIN changes : ~changes[i].isNew /\ changes[i].threefoldTicketId # NoTicket
    /\ \E i \in DOMAIN changes : changes[i].isNew

\* C6: a run that returns has written the whole deduplicated batch in this
\* run, with no change as well as after the loop, whatever the cases not
\* found or failed: every row of the batch is seen now, later than before.
C6_AlwaysPersists ==
    RunReturned =>
        /\ BatchPersisted
        /\ \A c \in BatchCaseNos :
              c \in DOMAIN state0 => state0[c].last_seen_at < case_state[c].last_seen_at

C6_Witness ==
    /\ RunReturned
    /\ changes = <<>>
    /\ \E c \in BatchCaseNos : c \in DOMAIN state0

C8_RemoteErrorContained ==
    RemoteErrors # {} =>
        /\ errors = Cardinality({i \in DOMAIN outcomes : outcomes[i].bucket = "error"})
        /\ Cardinality(RemoteErrors) <= errors
        /\ pc \in {"resolve", "apply", "persist", "catch", "idle"}
        /\ pc \in {"persist", "catch", "idle"} =>
              processed = Len(changes) /\ Len(outcomes) = Len(changes)
        /\ pc = "catch" => err \in {"upsertCaseState failed", "completeSyncLog failed"}
        /\ pc = "idle" =>
              \/ result = "returned" /\ BatchPersisted
                    /\ sync_log[syncId].completed_at # NoTime
                    /\ sync_log[syncId].error_message = Null
              \/ result = "thrown" /\ err \in {"upsertCaseState failed", "completeSyncLog failed"}

C8_Witness ==
    /\ RunReturned
    /\ Len(outcomes) = 2
    /\ outcomes[1].cause = "remote"
    /\ outcomes[2].bucket \in {"updated", "noChanges", "notFound"}

\* C9: a store error of diffCases, of updateCaseThreefoldId while a link is
\* cached, or of upsertCaseState is fatal: the rest of the run is abandoned,
\* the run throws that error and its sync_log row is finalized with it.
C9_StoreErrorFatal ==
    (StoreErrors # {} \/ err \in {"diffCases failed", "upsertCaseState failed"}) =>
        /\ pc \in {"catch", "idle"}
        /\ pc = "idle" =>
              /\ result = "thrown"
              /\ sync_log[syncId].completed_at # NoTime
              /\ sync_log[syncId].error_message = err

\* C10: with caseUpdatesEnabled off a run makes no remote call and caches no
\* link; it still walks every change, only a store error makes it throw, and
\* when it returns the whole batch is written and its sync_log row completed.
C10_DryRun ==
    ~caseUpdatesEnabled =>
        /\ calls = <<>>
        /\ \A c \in DOMAIN case_state :
              case_state[c].threefold_ticket_id =
                  IF c \in DOMAIN state0 THEN state0[c].threefold_ticket_id ELSE NoTicket
        /\ \A i \in DOMAIN outcomes : outcomes[i].bucket = "dry"
        /\ pc \in {"persist", "catch", "idle"} /\ syncId # 0 /\ err # "diffCases failed"
              => Len(outcomes) = Len(changes)
        /\ pc = "idle" /\ result = "thrown" => err # NoError
        /\ RunReturned =>
              /\ BatchPersisted
              /\ sync_log[syncId].completed_at # NoTime
              /\ sync_log[syncId].total_records = Len(records)
              /\ sync_log[syncId].error_message = Null

C10_Witness ==
    /\ ~caseUpdatesEnabled
    /\ RunReturned
    /\ Len(changes) = 2

\* C11: when a run has returned, live or dry, every change the loop
\* processed is counted in exactly one of updated, notFound, noChanges and
\* errors: processed is their sum.
C11_RunAccounting ==
    RunReturned =>
        /\ processed = Len(changes)
        /\ processed = updated + notFound + noChanges + errors

\* the remote calls the step adds to the run's record
NewCalls == SubSeq(calls', Len(calls) + 1, Len(calls'))

\* a live run is about to resolve the ticket of its next change
Resolving == pc = "resolve" /\ caseUpdatesEnabled

LastOutcome == outcomes[Len(outcomes)]

\* C12 (as stated): once the search is known to be unavailable, every later
\* case, in this run and in later runs, is reported not found with no remote
\* call at all.
C12_NoCallAfter405 ==
    [][(Resolving /\ ~searchApiAvailable) =>
          (calls' = calls /\ notFound' = notFound + 1)]_vars

\* C12 (amended): once the search is known to be unavailable, no later case,
\* in this run or in later runs, is searched for; a case with no cached
\* ticket id is reported not found with no remote call, and a case with a
\* cached id is still fetched by that id, and reported not found when the
\* fetch reports 404.
C12_SearchSkippedAfter405 ==
    [][(Resolving /\ ~searchApiAvailable) =>
          LET change == changes[processed + 1]
          IN  /\ \A i \in DOMAIN NewCalls : NewCalls[i].op # "search"
              /\ ~searchApiAvailable'
              /\ change.threefoldTicketId = NoTicket =>
                    /\ calls' = calls
                    /\ notFound' = notFound + 1
                    /\ errors' = errors
              /\ change.threefoldTicketId # NoTicket =>
                    /\ NewCalls = <<Call("get", change.caseNo, change.threefoldTicketId)>>
                    /\ answered'.get = 404 => notFound' = notFound + 1]_vars

C12_Witness ==
    /\ caseUpdatesEnabled /\ ~searchApiAvailable
    /\ runs = 2
    /\ repeat = FALSE
    /\ calls = <<>>
    /\ notFound = 1
    /\ RunReturned

\* C13: the flag searchApiAvailable starts true and no step sets it back to
\* true once it is false.
C13_FlagMonotonic ==
    [][/\ runs = 0 => searchApiAvailable
       /\ searchApiAvailable' => searchApiAvailable]_vars

C13_Witness ==
    /\ ~searchApiAvailable
    /\ runs = 2
    /\ Len(outcomes) = 2
    /\ pc = "idle"

\* C14: a failed search is turned into no match, and the flag cleared, only
\* when its status is 405; a search failing with any other status, whatever
\* its body holds, is an error of the case and leaves the flag as it was.
C14_Only405Downgrades ==
    answered.search \notin {0, 200} =>
        IF answered.search = 405
        THEN ~searchApiAvailable /\ LastOutcome.bucket = "notFound"
        ELSE searchApiAvailable /\ LastOutcome.bucket = "error"
                                /\ LastOutcome.cause = "remote"

\* C15: a change with a cached ticket id is fetched by id first and searched
\* for only when the fetch reports 404; a change with no cached id is only
\* searched for; a fetch failing otherwise is an error of the case and no
\* search follows.
C15_ResolutionOrder ==
    [][Resolving =>
          LET change == changes[processed + 1]
          IN  IF change.threefoldTicketId # NoTicket
              THEN /\ NewCalls # <<>>
                   /\ NewCalls[1] = Call("get", change.caseNo, change.threefoldTicketId)
                   /\ Len(NewCalls) <= 2
                   /\ Len(NewCalls) = 2 =>
                         NewCalls[2].op = "search" /\ answered'.get = 404
                   /\ (answered'.get = 404 /\ searchApiAvailable) => Len(NewCalls) = 2
                   /\ answered'.get \notin {200, 404} =>
                         /\ Len(NewCalls) = 1
                         /\ errors' = errors + 1
                         /\ pc' # "apply"
              ELSE /\ Len(NewCalls) <= 1
                   /\ \A i \in DOMAIN NewCalls : NewCalls[i].op = "search"
                   /\ searchApiAvailable => Len(NewCalls) = 1]_vars

C15_Witness ==
    /\ answered.get = 404
    /\ answered.search = 200
    /\ pc = "apply"

\* null and the empty string are the same value of a remote field
Norm(x) == IF x = Null \/ x = "" THEN Null ELSE x

CallsFor(c) == {i \in DOMAIN calls : calls[i].caseNo = c}

\* C16: when a run has returned, every case it resolved to a ticket and
\* counted as updated or as already up to date, new or known before, has
\* that ticket's id as its cached link in case_state.
C16_LinkCached ==
    RunReturned =>
        \A i \in DOMAIN outcomes :
            outcomes[i].bucket \in {"updated", "noChanges"} =>
                /\ outcomes[i].caseNo \in DOMAIN case_state
                /\ case_state[outcomes[i].caseNo].threefold_ticket_id = outcomes[i].ticketId

\* C17: the payload of a remote write holds case_close_date iff the closed
\* dates differ, last_case_status iff the status differs from the derived
\* one, cc_case_opened iff the opened dates differ and the desired one is
\* not empty (null and empty alike), each with the desired value, and holds
\* no other field.
C17_MinimalPayload ==
    [][(pc = "apply" /\ calls' # calls) =>
          LET r == changes[processed].record
              keys == DOMAIN sent'
          IN  /\ keys \subseteq {"cc_case_opened", "case_close_date", "last_case_status"}
              /\ "case_close_date" \in keys <=>
                    Norm(ticket.case_close_date) # Norm(r.caseClosed)
              /\ "last_case_status" \in keys <=>
                    Norm(ticket.last_case_status) # StatusOf(r)
              /\ "cc_case_opened" \in keys <=>
                    /\ Norm(ticket.cc_case_opened) # Norm(r.caseOpened)
                    /\ Norm(r.caseOpened) # Null
              /\ "case_close_date" \in keys => sent'["case_close_date"] = Norm(r.caseClosed)
              /\ "last_case_status" \in keys => sent'["last_case_status"] = StatusOf(r)
              /\ "cc_case_opened" \in keys => sent'["cc_case_opened"] = r.caseOpened]_vars

C17_Witness == DOMAIN sent = {"cc_case_opened"}

\* the case c was stored opened-only and is delivered with the same opened
\* date and a closed date
ClosingCase(c) ==
    /\ c \in DOMAIN state0
    /\ c \in BatchCaseNos
    /\ state0[c].case_opened # Null
    /\ state0[c].case_closed = Null
    /\ LastOccurrence(c).caseOpened = state0[c].case_opened
    /\ LastOccurrence(c).caseClosed # Null

\* C18: a case stored opened-only and delivered with a closed date added is
\* detected as a change; when its ticket holds the same opened date, no close
\* date and the status open, the run issues one remote write for it, the only
\* one, whose payload is the closed date and the status closed and no more.
C18_ClosingScenario ==
    [][/\ (pc = "detect" /\ pc' # "catch") =>
              \A c \in CaseNos :
                  ClosingCase(c) =>
                      \E i \in DOMAIN changes' :
                          changes'[i].caseNo = c /\ ~changes'[i].isNew
       /\ (/\ pc = "apply"
           /\ ClosingCase(changes[processed].caseNo)
           /\ ticket.cc_case_opened = changes[processed].record.caseOpened
           /\ ticket.case_close_date = Null
           /\ ticket.last_case_status = "open") =>
              LET c == changes[processed].caseNo
              IN  /\ calls' = Append(calls, Call("update", c, ticket.id))
                  /\ Cardinality({i \in DOMAIN calls' :
                         calls'[i].op = "update" /\ calls'[i].caseNo = c}) = 1
                  /\ sent' = [k \in {"case_close_date", "last_case_status"} |->
                                 IF k = "case_close_date"
                                 THEN changes[processed].record.caseClosed
                                 ELSE "closed"]]_vars

C18_Witness ==
    /\ processed > 0
    /\ ClosingCase(changes[processed].caseNo)
    /\ DOMAIN sent = {"case_close_date", "last_case_status"}
    /\ sent["case_close_date"] = "2025-02-01"
    /\ sent["last_case_status"] = "closed"
    /\ LastOutcome.bucket = "updated"

\* the change i is a case with an opened date and no closed date that had
\* no row, and no ticket was found for it
NewUnmatched(i) ==
    /\ i \in DOMAIN changes
    /\ changes[i].caseNo \notin DOMAIN state0
    /\ changes[i].record.caseOpened # Null
    /\ changes[i].record.caseClosed = Null
    /\ outcomes[i].bucket = "notFound"

\* C19 (as stated): a new case with an opened date and no closed date for
\* which no ticket is found is classified isNew, no remote call is made for
\* it, and the run creates its row with case_status open.
C19_NoRemoteCall ==
    \A i \in DOMAIN outcomes :
        NewUnmatched(i) =>
            /\ changes[i].isNew
            /\ CallsFor(changes[i].caseNo) = {}
            /\ RunReturned => case_state[changes[i].caseNo].case_status = "open"

\* C19 (amended): such a case is classified isNew, no remote write is made
\* for it, the only remote call for it being the one search that found no
\* ticket (none once the search is disabled); it is counted as not found and
\* the run creates its row with case_status open and no cached link.
C19_NewCaseScenario ==
    \A i \in DOMAIN outcomes :
        NewUnmatched(i) =>
            LET c == changes[i].caseNo
            IN  /\ changes[i].isNew
                /\ changes[i].threefoldTicketId = NoTicket
                /\ WritesFor(c) = {}
                /\ Cardinality(CallsFor(c)) <= 1
                /\ \A k \in CallsFor(c) : calls[k].op = "search"
                /\ notFound >= 1
                /\ RunReturned =>
                      /\ c \in DOMAIN case_state
                      /\ case_state[c].case_status = "open"
                      /\ case_state[c].case_opened = changes[i].record.caseOpened
                      /\ case_state[c].threefold_ticket_id = NoTicket
                      /\ case_state[c].created_at = clock

C19_Witness ==
    /\ RunReturned
    /\ NewUnmatched(1)
    /\ \E k \in CallsFor(changes[1].caseNo) : calls[k].op = "search"

\* C20: a case counted as not found in a run that returned, and delivered
\* again unchanged by the next run, is a change of that run again, so that
\* its ticket is looked for once more.
C20_NotFoundStaysPending ==
    (repeat /\ Detected) =>
        \A c \in pending \cap BatchCaseNos :
            \E i \in DOMAIN changes : changes[i].caseNo = c

\* the rows of a table, last_seen_at set aside
StripSeen(state) == [c \in DOMAIN state |-> [state[c] EXCEPT !.last_seen_at = NoTime]]

\* C21: upsertCaseState is idempotent but for last_seen_at: on the table a
\* run's upsert has just written, a second upsert of the same batch leaves
\* every row as it is, and so does the upsert of a run that replays the
\* batch of the run before it.
C21_UpsertIdempotent ==
    RunReturned =>
        /\ StripSeen(UpsertCaseState(case_state, records, clock + 1, 0)) = StripSeen(case_state)
        /\ repeat => StripSeen(case_state) = StripSeen(state0)

C21_Witness ==
    /\ RunReturned
    /\ repeat
    /\ Len(records) = 2
    /\ records[1].caseNo = records[2].caseNo
    /\ records[1] # records[2]
    /\ case_state[records[1].caseNo].threefold_ticket_id # NoTicket

\* the chunk of upsertCaseState that holds the i-th deduplicated record
ChunkOf(i) == ((i - 1) \div BATCH_SIZE) + 1

\* C22: when the write of chunk k of upsertCaseState is rejected the error
\* reaches the caller, every row of the chunks before k holds the new values
\* and every row of chunk k and of the chunks after it is as it was before
\* the call (no later chunk is written).
C22_ChunkFailure ==
    [][(pc \in {"zero", "persist"} /\ pc' = "catch" /\ err' = "upsertCaseState failed") =>
          LET uniqueRecords == Dedup(records)
              untouched(c) == IF c \in DOMAIN case_state
                              THEN c \in DOMAIN case_state' /\ case_state'[c] = case_state[c]
                              ELSE c \notin DOMAIN case_state'
          IN  /\ \E k \in 1..NChunks(records) :
                    \A i \in DOMAIN uniqueRecords :
                        LET r == uniqueRecords[i]
                        IN  IF ChunkOf(i) < k
                            THEN /\ r.caseNo \in DOMAIN case_state'
                                 /\ case_state'[r.caseNo].case_opened = r.caseOpened
                                 /\ case_state'[r.caseNo].case_closed = r.caseClosed
                                 /\ case_state'[r.caseNo].case_status = StatusOf(r)
                                 /\ case_state'[r.caseNo].content_hash = Fingerprint(r)
                                 /\ case_state'[r.caseNo].last_seen_at = clock
                            ELSE untouched(r.caseNo)
              /\ \A c \in CaseNos \ BatchCaseNos : untouched(c)
              /\ sync_log' = sync_log]_vars

C22_Witness ==
    /\ pc = "catch"
    /\ err = "upsertCaseState failed"
    /\ Len(records) = 2
    /\ records[1].caseNo \in DOMAIN case_state
    /\ case_state[records[1].caseNo].last_seen_at = clock
    /\ records[2].caseNo \notin DOMAIN case_state

\* C24: every row of case_state has case_status closed iff its case_opened
\* and its case_closed are both present, and open otherwise; and
\* determineCaseStatus returns just that for every pair of dates.
C24_StatusInvariant ==
    /\ \A c \in DOMAIN case_state :
          case_state[c].case_status =
              IF case_state[c].case_opened # Null /\ case_state[c].case_closed # Null
              THEN "closed" ELSE "open"
    /\ \A o \in OpenedDates, cl \in ClosedDates :
          determineCaseStatus(o, cl) =
              IF o # Null /\ cl # Null THEN "closed" ELSE "open"

C24_Witness ==
    /\ \E c \in DOMAIN case_state :
          /\ case_state[c].case_opened = Null
          /\ case_state[c].case_closed # Null
          /\ case_state[c].case_status = "open"
    /\ \E c \in DOMAIN case_state : case_state[c].case_status = "closed"

\* C30: every remote write carries at least one field; a case whose ticket
\* differs only by an opened date the record does not have is not written
\* and not counted as updated.
C30_NoEmptyPayload ==
    [][pc = "apply" =>
          /\ calls' # calls => DOMAIN sent' # {}
          /\ (/\ Norm(changes[processed].record.caseOpened) = Null
              /\ Norm(ticket.cc_case_opened) # Null
              /\ Norm(ticket.case_close_date) = Norm(changes[processed].record.caseClosed)
              /\ Norm(ticket.last_case_status) = StatusOf(changes[processed].record)) =>
                 (calls' = calls /\ updated' = updated)]_vars

\* C29: every search by case number asks for one result and for closed
\* tickets too; a case the search answers for while the only matching ticket
\* of the remote store is closed is resolved to that ticket and not counted
\* as not found.
C29_ClosedTicketFound ==
    [][(pc = "resolve" /\ answered'.search # 0) =>
          /\ answered'.request.limit = 1
          /\ answered'.request.include_closed
          /\ answered'.request.cc_case_number = changes[processed + 1].caseNo
          /\ (answered'.search = 200 /\ answered'.closedMatch) =>
                /\ pc' = "apply"
                /\ ticket'.id # NoTicket
                /\ IlikeContains(ticket'.cc_case_number, changes[processed + 1].caseNo)
                /\ notFound' = notFound]_vars

C29_Witness ==
    /\ pc = "apply"
    /\ answered.search = 200
    /\ answered.closedMatch
    /\ ticket.id # NoTicket
    /\ ticket.last_case_status = "closed"

RecordOfRow(c, caseType) ==
    [caseNo |-> c, caseOpened |-> case_state[c].case_opened,
     caseClosed |-> case_state[c].case_closed, caseType |-> caseType]

\* two rows that differ in their case type alone have one fingerprint
SameFingerprintWhateverType ==
    \A row \in RawRows, t \in RawCaseTypes :
        generateCaseHash(RecordOf([row EXCEPT !.CaseType = t]))
            = generateCaseHash(RecordOf(row))

\* C25: generateCaseHash depends on caseNo, caseOpened and caseClosed only:
\* two rows of a delivery that differ in their case type alone have the
\* same fingerprint, and the fingerprint of every stored row and of every
\* change is the one of its case number and dates under any case type.
C25_FingerprintPurity ==
    /\ SameFingerprintWhateverType
    /\ \A c \in DOMAIN case_state, t \in RawCaseTypes :
          case_state[c].content_hash = generateCaseHash(RecordOfRow(c, t))
    /\ \A i \in DOMAIN changes, t \in RawCaseTypes :
          changes[i].newHash = generateCaseHash([changes[i].record EXCEPT !.caseType = t])

C25_Witness ==
    /\ RunReturned
    /\ \E c \in DOMAIN state0 :
          /\ state0[c].case_type # case_state[c].case_type
          /\ state0[c].content_hash = case_state[c].content_hash
    /\ \E i \in DOMAIN changes : changes[i].record.caseType = "ZONING"

\* the cases of the batch whose record differs from the row the run found
\* in the case type only
TypeOnlyChanged ==
    {c \in BatchCaseNos \cap DOMAIN state0 :
        /\ state0[c].case_opened = LastOccurrence(c).caseOpened
        /\ state0[c].case_closed = LastOccurrence(c).caseClosed
        /\ state0[c].case_type # LastOccurrence(c).caseType}

\* C26: a record that differs from the stored row only in the fields outside
\* the fingerprint yields no change and no remote call, and the upsert of a
\* run that returns stores the record's values of these fields.
C26_AbsorbedSilently ==
    \A c \in TypeOnlyChanged :
        /\ Detected =>
              /\ \A i \in DOMAIN changes : changes[i].caseNo # c
              /\ \A i \in DOMAIN calls : calls[i].caseNo # c
        /\ RunReturned =>
              /\ case_state[c].case_type = LastOccurrence(c).caseType
              /\ case_state[c].content_hash = state0[c].content_hash

C26_Witness ==
    /\ RunReturned
    /\ changes = <<>>
    /\ \E c \in TypeOnlyChanged :
          state0[c].case_type = "CODE ENFORCEMENT" /\ case_state[c].case_type = "ZONING"

\* the rows of the attachment whose case number fails isValidCaseNo
InvalidRows == {i \in DOMAIN csv : ~isValidCaseNo(Trim(csv[i].CASE_NO))}

\* C27: the rows of a delivery whose case number fails isValidCaseNo are
\* skipped and counted, the other rows are the run's batch and are stored
\* when the run returns; no record, change, remote call or stored row has
\* an invalid case number.
C27_InputRejection ==
    /\ skipped = Cardinality(InvalidRows)
    /\ Len(records) = Len(csv) - skipped
    /\ \A i \in DOMAIN records : isValidCaseNo(records[i].caseNo)
    /\ \A i \in DOMAIN changes : isValidCaseNo(changes[i].caseNo)
    /\ \A i \in DOMAIN calls : isValidCaseNo(calls[i].caseNo)
    /\ \A c \in DOMAIN case_state : isValidCaseNo(c)
    /\ RunReturned =>
          \A i \in DOMAIN csv \ InvalidRows : Trim(csv[i].CASE_NO) \in DOMAIN case_state

C27_Witness ==
    /\ RunReturned
    /\ skipped = 1
    /\ Len(csv) = 2
    /\ \A i \in DOMAIN records : records[i].caseNo \in DOMAIN case_state
    /\ calls # <<>>

\* C28: a remote call of a run that enters rateLimitedRequest before the
\* minimum interval has passed since the last release waits, and a call is
\* released no earlier than MIN_REQUEST_INTERVAL_MS after the release of the
\* run's call before it.
C28_RateLimited ==
    [][\A c \in Callers :
          /\ (limiter[c].at = "idle" /\ limiter'[c].at # "idle"
                  /\ now - lastRequestTime < MIN_REQUEST_INTERVAL_MS) =>
                /\ limiter'[c].at = "sleeping"
                /\ limiter'[c].wakeAt >= lastRequestTime + MIN_REQUEST_INTERVAL_MS
          /\ (limiter[c].at # "fetching" /\ limiter'[c].at = "fetching"
                  /\ limiter[c].released # NoTime) =>
                limiter'[c].released - limiter[c].released >= MIN_REQUEST_INTERVAL_MS]_vars

C28_Witness ==
    \E c \in Callers :
        /\ limiter[c].at = "fetching"
        /\ limiter[c].waited
        /\ limiter[c].op = "update"
        /\ limiter[c].released = StartTime + MIN_REQUEST_INTERVAL_MS

\* C31: a remote write or a cached link made for a case with a ticket the
\* search returned uses a ticket whose cc_case_number is the case number.
C31_ExactMatch ==
    [][(/\ pc = "apply"
        /\ answered.search = 200
        /\ (calls' # calls \/ case_state' # case_state)) =>
          ticket.cc_case_number = changes[processed].caseNo]_vars

\* the remote writes of the run that the remote store accepted, and the
\* cases of the run whose reconciliation failed
FailedWrites ==
    {i \in DOMAIN outcomes :
        /\ outcomes[i].bucket = "error"
        /\ outcomes[i].cause = "remote"
        /\ outcomes[i].ticketId # NoTicket}
SucceededWrites == Cardinality(Writes) - Cardinality(FailedWrites)
FailedCases == {i \in DOMAIN outcomes : outcomes[i].bucket = "error"}

\* C32: the sync_log row of a finalized run, returned or thrown, records as
\* changed_records the number of remote writes that succeeded in the run and
\* as errors the number of cases whose reconciliation failed.
C32_FaithfulTotals ==
    (RunEnded /\ sync_log[syncId].completed_at # NoTime) =>
        /\ sync_log[syncId].changed_records = SucceededWrites
        /\ sync_log[syncId].errors = Cardinality(FailedCases)

\* C33: on the update path the link of a case is cached only when the
\* remote write has succeeded; a failed remote write leaves the table as it
\* is and counts the case as an error, not as updated, and until the run
\* ends no remote call is made for the case and its link is not written.
C33_LinkAfterWrite ==
    [][/\ (pc = "apply" /\ calls' # calls) =>
            LET o == outcomes'[Len(outcomes')]
            IN  /\ case_state' # case_state => o.bucket = "updated"
                /\ (o.bucket = "error" /\ o.cause = "remote") =>
                      /\ case_state' = case_state
                      /\ errors' = errors + 1
                      /\ updated' = updated
                      /\ Len(calls') = Len(calls) + 1
       /\ pc \in {"resolve", "apply"} =>
            \A i \in FailedWrites :
                LET c == outcomes[i].caseNo
                IN  /\ {k \in DOMAIN calls' : calls'[k].caseNo = c} = CallsFor(c)
                    /\ c \in DOMAIN case_state =>
                          case_state'[c].threefold_ticket_id
                              = case_state[c].threefold_ticket_id]_vars

C33_Witness ==
    /\ RunReturned
    /\ \E i \in FailedWrites :
          /\ outcomes[i].caseNo \in DOMAIN state0
          /\ state0[outcomes[i].caseNo].threefold_ticket_id = NoTicket
          /\ case_state[outcomes[i].caseNo].threefold_ticket_id = NoTicket

\* C34: when a run returns, the row of every case it counted as an error
\* holds the fingerprint of the case's record, so that diffCases finds no
\* change for it; a run that replays the batch of a run that returned with
\* errors detects no change and makes no remote call.
C34_NoRetryOnRedelivery ==
    /\ RunReturned =>
          \A i \in FailedCases :
              LET c == outcomes[i].caseNo
              IN  /\ c \in DOMAIN case_state
                  /\ case_state[c].content_hash = Fingerprint(LastOccurrence(c))
                  /\ ~Differs(LastOccurrence(c), case_state)
    /\ (repeat /\ Detected /\ syncId > 1 /\ sync_log[syncId - 1].errors > 0) =>
          (changes = <<>> /\ calls = <<>>)

C34_Witness ==
    /\ repeat
    /\ RunReturned
    /\ syncId > 1
    /\ sync_log[syncId - 1].errors > 0
    /\ sync_log[syncId - 1].changed_records = 0
    /\ records # <<>>
    /\ changes = <<>>

\* C35: the upsert at the end of a run, complete or cut short by a rejected
\* chunk, keeps threefold_ticket_id and created_at of every row that was
\* there, leaves the row of every case outside the batch as it is, and
\* inserts new rows with no cached link.
C35_UpsertFrame ==
    [][(pc \in {"zero", "persist"}) =>
        ( /\ \A c \in DOMAIN case_state :
                /\ c \in DOMAIN case_state'
                /\ case_state'[c].threefold_ticket_id = case_state[c].threefold_ticket_id
                /\ case_state'[c].created_at = case_state[c].created_at
                /\ c \notin BatchCaseNos => case_state'[c] = case_state[c]
          /\ \A c \in DOMAIN case_state' \ DOMAIN case_state :
                /\ c \in BatchCaseNos
                /\ case_state'[c].threefold_ticket_id = NoTicket
                /\ case_state'[c].created_at = clock )]_vars

C35_Witness ==
    /\ RunReturned
    /\ Len(records) = 2
    /\ \E c \in BatchCaseNos \cap DOMAIN state0 :
          /\ case_state[c].threefold_ticket_id # NoTicket
          /\ case_state[c].created_at < clock
          /\ case_state[c].last_seen_at = clock
          /\ case_state[c].content_hash # state0[c].content_hash
    /\ \E c \in BatchCaseNos \ DOMAIN state0 :
          case_state[c].threefold_ticket_id = NoTicket

\* C37: whichever callers they come from, two remote calls are released at
\* least MIN_REQUEST_INTERVAL_MS apart.
C37_GlobalSpacing ==
    [][\A c \in Callers :
          (limiter[c].at # "fetching" /\ limiter'[c].at = "fetching") =>
              \A d \in Callers \ {c} :
                  \/ limiter[d].released = NoTime
                  \/ limiter'[c].released - limiter[d].released
                         >= MIN_REQUEST_INTERVAL_MS]_vars

\* C36: under every interleaving of runs writing case_state at the same time,
\* chunk rejections included, the fingerprint a row stores is the fingerprint
\* of the case number, opened date and closed date the row stores.
C36_FingerprintMatchesRow ==
    \A c \in DOMAIN case_state :
        case_state[c].content_hash
            = generateCaseHash(RecordOfRow(c, case_state[c].case_type))

\* two runs carried different records of one case; one wrote all its chunks,
\* the other wrote one chunk and was aborted by the next, and the row is linked
C36_Witness ==
    /\ racers[1].at = "done"
    /\ racers[2].at = "aborted"
    /\ racers[2].written = 1
    /\ racers[1].linked
    /\ \E i \in DOMAIN racers[1].records, j \in DOMAIN racers[2].records :
          LET mine == racers[1].records[i]
              theirs == racers[2].records[j]
          IN  /\ mine.caseNo = theirs.caseNo
              /\ generateCaseHash(mine) # generateCaseHash(theirs)
              /\ mine.caseNo \in DOMAIN case_state
              /\ case_state[mine.caseNo].threefold_ticket_id # NoTicket
              /\ case_state[mine.caseNo].content_hash = generateCaseHash(theirs)

\* the shape "two letters, two digits, a hyphen, a non-empty numeric suffix"
TwoLetterShape(str) ==
    \E n \in 1..MaxIdLen :
        /\ Len(str) = 5 + n
        /\ {str[1], str[2]} \subseteq Uppers \cup Lowers
        /\ {str[3], str[4]} \subseteq Digits
        /\ str[5] = "-"
        /\ \A i \in 1..n : str[5 + i] \in Digits

\* the shape "the letter C, an upper-case letter, two digits, a hyphen, a
\* non-empty numeric suffix"
CLetterShape(str) ==
    \E n \in 1..MaxIdLen :
        /\ Len(str) = 5 + n
        /\ str[1] = "C"
        /\ str[2] \in Uppers
        /\ {str[3], str[4]} \subseteq Digits
        /\ str[5] = "-"
        /\ \A i \in 1..n : str[5 + i] \in Digits

\* C38 (as stated): isValidCaseNo returns true exactly for the strings made of
\* two letters, two digits, a hyphen and a non-empty numeric suffix.
C38_AcceptsTwoLetterShape ==
    (verdict # "none") => (verdict = "valid" <=> TwoLetterShape(candidate))

\* C38 (amended): isValidCaseNo returns true exactly for the strings made of
\* the letter C, an upper-case letter, two digits, a hyphen and a non-empty
\* numeric suffix; everything else, the empty string included, is rejected.
C38_AcceptsCLetterShape ==
    (verdict # "none") =>
        /\ verdict = "valid" <=> CLetterShape(candidate)
        /\ candidate = <<>> => verdict = "invalid"

\* a two-digit suffix has been accepted
C38_Witness ==
    /\ verdict = "valid"
    /\ Len(candidate) = 7
    /\ candidate[2] = "E"

====
